---- MODULE Spec2Model ----
(***************************************************************************)
(* Portfolio tracker (app.py, utils.py): the break-even solver, the        *)
(* portfolio aggregator and the routes that read and write Stock records.  *)
(*                                                                         *)
(* Numbers.  A Python float is modelled as an exact rational <<n, d>> in   *)
(* lowest terms with d > 0, or as NaN (the value float("nan") parses to).  *)
(* The rounding error of binary64 arithmetic and the infinities are not    *)
(* modelled; NaN is, because it changes which branch a comparison takes.   *)
(* round(x, 2) rounds the exact value, ties to even.                       *)
(* An optional value is <<>> (None) or <<x>>.                              *)
(***************************************************************************)
EXTENDS Integers, Sequences, FiniteSets, TLC

\* ------------------------------------------------------------------------
\* Bounds of the model
\* ------------------------------------------------------------------------
MaxQty == 2        \* solver and aggregator: quantities -1 .. MaxQty
MaxPrice == 2      \* prices up to MaxPrice
MaxLen == 2        \* length of the sequences handed to the aggregator
MaxShares == 1     \* routes: quantities submitted, -1 .. MaxShares
MaxWrites == 2     \* routes: committed add-stock submissions in a behaviour
MaxUsers == 2      \* user ids 1 .. MaxUsers

\* ------------------------------------------------------------------------
\* Float arithmetic
\* ------------------------------------------------------------------------
NaN == <<0, 0>>
Zero == <<0, 1>>
None == <<>>

Abs(n) == IF n < 0 THEN -n ELSE n

RECURSIVE GCD(_, _)
GCD(a, b) == IF b = 0 THEN a ELSE GCD(b, a % b)

Norm(n, d) ==
    LET g == GCD(Abs(n), Abs(d))
        s == IF d < 0 THEN -1 ELSE 1
    IN  <<s * (n \div g), s * (d \div g)>>

IsNaN(a) == a[2] = 0

I(n) == <<n, 1>>

Add(a, b) == IF IsNaN(a) \/ IsNaN(b) THEN NaN
             ELSE Norm(a[1] * b[2] + b[1] * a[2], a[2] * b[2])

Sub(a, b) == IF IsNaN(a) \/ IsNaN(b) THEN NaN
             ELSE Norm(a[1] * b[2] - b[1] * a[2], a[2] * b[2])

Mul(a, b) == IF IsNaN(a) \/ IsNaN(b) THEN NaN
             ELSE Norm(a[1] * b[1], a[2] * b[2])

\* a / b for b # 0; Python raises ZeroDivisionError for b = 0, which the
\* callers test for before they divide.
Div(a, b) == IF IsNaN(a) \/ IsNaN(b) THEN NaN
             ELSE Norm(a[1] * b[2], a[2] * b[1])

\* Every ordered comparison with NaN is False.
Le(a, b) == ~IsNaN(a) /\ ~IsNaN(b) /\ a[1] * b[2] <= b[1] * a[2]
Lt(a, b) == ~IsNaN(a) /\ ~IsNaN(b) /\ a[1] * b[2] < b[1] * a[2]
Ge(a, b) == Le(b, a)
Gt(a, b) == Lt(b, a)

\* round(x, 2): the nearest multiple of 1/100, ties to the even one.
Round2(x) ==
    IF IsNaN(x) THEN NaN
    ELSE LET n == 100 * x[1]
             d == x[2]
             fl == n \div d
             rem == n - fl * d
             k == IF 2 * rem < d THEN fl
                  ELSE IF 2 * rem > d THEN fl + 1
                  ELSE IF fl % 2 = 0 THEN fl ELSE fl + 1
         IN  Norm(k, 100)

\* ------------------------------------------------------------------------
\* utils.calculate_shares_to_buy
\* ------------------------------------------------------------------------

\* The call's outcome: ret is the value returned (None, or <<q2>>), and
\* denominator is None when the function returns before the division and
\* <<d>> when control reaches `numerator / denominator` with denominator d.
calculate_shares_to_buy_gt(q1, p1, p2, p_target) ==
    IF Le(p_target, p2) THEN [ret |-> None, denominator |-> None]
    ELSE IF Gt(p_target, p1) THEN [ret |-> None, denominator |-> None]
    ELSE LET numerator == Mul(q1, Sub(p1, p_target))
             denominator == Sub(p_target, p2)
         IN  [ret |-> IF denominator = Zero THEN None
                      ELSE <<Div(numerator, denominator)>>,
              denominator |-> <<denominator>>]

calculate_shares_to_buy_p1(q1, p1, p2, p_target) ==
    IF Le(p_target, p2) THEN [ret |-> None, denominator |-> None]
    ELSE IF Ge(p_target, p1) THEN [ret |-> None, denominator |-> None]
    ELSE LET numerator == Mul(q1, Sub(p1, p_target))
             denominator == Sub(p1, p2)
         IN  [ret |-> IF denominator = Zero THEN None
                      ELSE <<Div(numerator, denominator)>>,
              denominator |-> <<denominator>>]

calculate_shares_to_buy(q1, p1, p2, p_target) ==
    IF Le(p_target, p2) THEN [ret |-> None, denominator |-> None]
    ELSE IF Ge(p_target, p1) THEN [ret |-> None, denominator |-> None]
    ELSE LET numerator == Mul(q1, Sub(p1, p_target))
             denominator == Sub(p_target, p2)
         IN  [ret |-> IF denominator = Zero
                      THEN None            \* ZeroDivisionError, caught
                      ELSE <<Div(numerator, denominator)>>,
              denominator |-> <<denominator>>]

\* ------------------------------------------------------------------------
\* app.portfolio, the branch that updates an existing stock: the new
\* quantity and average price, <<"ok", quantity, price>>, or <<"raise">>
\* when total_quantity is 0 and the division raises ZeroDivisionError.
\* ------------------------------------------------------------------------
update_existing_stock_old(quantity, buy_price, form_quantity, form_buy_price) ==
    LET old_total_cost == Mul(quantity, buy_price)
        new_purchase_cost == Mul(form_quantity, form_buy_price)
        total_quantity == Add(quantity, form_quantity)
    IN  IF total_quantity = Zero THEN <<"raise">>
        ELSE <<"ok", total_quantity,
               Div(Add(old_total_cost, new_purchase_cost), quantity)>>

update_existing_stock(quantity, buy_price, form_quantity, form_buy_price) ==
    LET old_total_cost == Mul(quantity, buy_price)
        new_purchase_cost == Mul(form_quantity, form_buy_price)
        total_quantity == Add(quantity, form_quantity)
    IN  IF total_quantity = Zero THEN <<"raise">>
        ELSE <<"ok", total_quantity,
               Div(Add(old_total_cost, new_purchase_cost), total_quantity)>>

\* ------------------------------------------------------------------------
\* utils.process_portfolio_data
\* ------------------------------------------------------------------------
profit_loss_of_price_only(stock) ==
    Sub(stock.current_price, stock.buy_price)

profit_loss_of(stock) ==
    Mul(Sub(stock.current_price, stock.buy_price), I(stock.quantity))

stock_data_of(stock) ==
    [id |-> stock.id,
     stock_name |-> stock.stock_name,
     quantity |-> stock.quantity,
     buy_price |-> Round2(stock.buy_price),
     current_price |-> Round2(stock.current_price),
     profit_loss |-> Round2(profit_loss_of(stock))]

\* The state before the loop: the empty list and the two running sums.
loop_start_one == [portfolio |-> <<>>, total_investment |-> I(1),
                   total_current_value |-> I(1)]

loop_start == [portfolio |-> <<>>, total_investment |-> Zero,
               total_current_value |-> Zero]

\* One iteration of the loop.
loop_body_buy_price(acc, stock) ==
    [portfolio |-> Append(acc.portfolio, stock_data_of(stock)),
     total_investment |->
        Add(acc.total_investment, Mul(I(stock.quantity), stock.buy_price)),
     total_current_value |->
        Add(acc.total_current_value, Mul(I(stock.quantity), stock.buy_price))]

loop_body(acc, stock) ==
    [portfolio |-> Append(acc.portfolio, stock_data_of(stock)),
     total_investment |->
        Add(acc.total_investment, Mul(I(stock.quantity), stock.buy_price)),
     total_current_value |->
        Add(acc.total_current_value, Mul(I(stock.quantity), stock.current_price))]

RECURSIVE loop(_, _, _)
loop(acc, all_stocks, i) ==
    IF i > Len(all_stocks) THEN acc
    ELSE loop(loop_body(acc, all_stocks[i]), all_stocks, i + 1)

process_portfolio_data(all_stocks) ==
    LET acc == loop(loop_start, all_stocks, 1)
        total_profit_loss == Sub(acc.total_current_value, acc.total_investment)
    IN  [portfolio |-> acc.portfolio,
         summary |-> [total_investment |-> Round2(acc.total_investment),
                      total_current_value |-> Round2(acc.total_current_value),
                      total_profit_loss |-> Round2(total_profit_loss)]]

\* ------------------------------------------------------------------------
\* Form fields.  A submitted field is <<kind, value>>: the text of an integer
\* ("2"), of a decimal ("1.5"), "nan", or text that is no number.
\* ------------------------------------------------------------------------
IntText(n) == <<"int", I(n)>>
DecText(x) == <<"dec", x>>
NanText == <<"nan", NaN>>
JunkText == <<"junk", NaN>>

\* int(text): <<n>>, or None for ValueError.
parse_int(f) == IF f[1] = "int" THEN <<f[2][1]>> ELSE None

\* float(text): <<x>>, or None for ValueError.
parse_float(f) == IF f[1] \in {"int", "dec", "nan"} THEN <<f[2]>> ELSE None

\* str.upper() on the stock names of the model.
upper(name) == CASE name = "x" -> "X"
                 [] name = "y" -> "Y"
                 [] OTHER -> name

\* ------------------------------------------------------------------------
\* State
\* ------------------------------------------------------------------------
VARIABLES
    users,    \* User table: records [id, username]
    stocks,   \* Stock table: records [id, stock_name, quantity, buy_price,
              \*                       current_price, user_id]
    writes,   \* number of committed add-stock submissions so far
    last,     \* the request handled last: <<route, user id, response>>
    sIn,      \* solver: arguments of the call, [q1, p1, p2, p_target]
    sOut,     \* solver: <<"idle">>, or <<"ret", result, denominator>>
    sNew,     \* solver: None, or the position after buying the q2 shares
    aIn,      \* aggregator: the sequence of positions handed to it
    aOut      \* aggregator: None, or <<result>>

appVars == <<users, stocks, writes, last>>
solverVars == <<sIn, sOut, sNew>>
aggVars == <<aIn, aOut>>
vars == <<users, stocks, writes, last, sIn, sOut, sNew, aIn, aOut>>

Prices == {Norm(k, 2) : k \in -1 .. 2 * MaxPrice}
Floats == Prices \cup {NaN}
Quantities == -1 .. MaxQty

AppIdle ==
    /\ users = {}
    /\ stocks = {}
    /\ writes = 0
    /\ last = <<"none", 0, "none">>

SolverIdle ==
    /\ sIn = [q1 |-> 1, p1 |-> I(1), p2 |-> I(1), p_target |-> I(1)]
    /\ sOut = <<"idle">>
    /\ sNew = None

AggIdle ==
    /\ aIn = <<>>
    /\ aOut = None

\* ------------------------------------------------------------------------
\* The routes of app.py.  Every request of a logged-in user is handled to
\* completion; login_required admits the users of the User table.
\* ------------------------------------------------------------------------
Usernames == {"a", "b"}
FormNames == {"x", "X", "y"}
QuantityFields == {IntText(n) : n \in -1 .. MaxShares} \cup {DecText(Norm(3, 2))}
BuyPriceFields == {IntText(n) : n \in 1 .. MaxPrice} \cup {JunkText}
CurrentPriceFields == {DecText(Norm(1, 2)), IntText(1), NanText}
TargetFields == {DecText(Norm(3, 2)), NanText, JunkText}
StockIds == 1 .. MaxWrites

MaxOf(S) == CHOOSE m \in S : \A n \in S : n <= m

\* The id SQLite gives a new row of a table with the ids S.
next_id(S) == IF S = {} THEN 1 ELSE MaxOf(S) + 1

\* Query.filter_by(...).first(): None, or <<row>> for the matching row of
\* the lowest id.
first(rows) ==
    IF rows = {} THEN None
    ELSE <<CHOOSE r \in rows : \A t \in rows : r.id <= t.id>>

\* SQLite stores a NaN as NULL, which a nullable=False column rejects.
commit_ok(row) == ~IsNaN(row.buy_price) /\ ~IsNaN(row.current_price)

register(username) ==
    /\ next_id({u.id : u \in users}) <= MaxUsers
    /\ LET existing_user == first({u \in users : u.username = username})
       IN  IF existing_user # None
           THEN /\ last' = <<"register", 0, "taken">>
                /\ UNCHANGED users
           ELSE /\ users' = users \cup
                      {[id |-> next_id({u.id : u \in users}),
                        username |-> username]}
                /\ last' = <<"register", 0, "created">>
    /\ UNCHANGED <<stocks, writes, solverVars, aggVars>>

existing_stock_any_user(user_id, form_stock_name) ==
    first({s \in stocks : s.stock_name = form_stock_name})

existing_stock_of(user_id, form_stock_name) ==
    first({s \in stocks : s.user_id = user_id /\ s.stock_name = form_stock_name})

\* POST /portfolio.  Any exception (a field that does not parse, a division
\* by zero, a failed commit) leaves the table as it was.
portfolio_post(user_id, stock_name, quantity, buy_price, current_price) ==
    LET form_stock_name == upper(stock_name)
        form_quantity == parse_int(quantity)
        form_buy_price == parse_float(buy_price)
        form_current_price == parse_float(current_price)
    IN
    /\ writes < MaxWrites
    /\ IF form_quantity = None \/ form_buy_price = None
            \/ form_current_price = None
       THEN /\ last' = <<"portfolio_post", user_id, <<"error">>>>
            /\ UNCHANGED <<stocks, writes>>
       ELSE
       LET existing_stock == existing_stock_of(user_id, form_stock_name)
       IN  IF existing_stock # None
           THEN LET old == existing_stock[1]
                    upd == update_existing_stock(I(old.quantity), old.buy_price,
                               I(form_quantity[1]), form_buy_price[1])
                    new == [old EXCEPT !.quantity = upd[2][1],
                                       !.buy_price = upd[3],
                                       !.current_price = form_current_price[1]]
                IN  IF upd[1] = "ok" /\ commit_ok(new)
                    THEN /\ stocks' = (stocks \ {old}) \cup {new}
                         /\ writes' = writes + 1
                         /\ last' = <<"portfolio_post", user_id,
                                    <<"updated", form_stock_name, form_quantity[1]>>>>
                    ELSE /\ last' = <<"portfolio_post", user_id, <<"error">>>>
                         /\ UNCHANGED <<stocks, writes>>
           ELSE LET new_stock == [id |-> next_id({s.id : s \in stocks}),
                                  stock_name |-> form_stock_name,
                                  quantity |-> form_quantity[1],
                                  buy_price |-> form_buy_price[1],
                                  current_price |-> form_current_price[1],
                                  user_id |-> user_id]
                IN  IF commit_ok(new_stock)
                    THEN /\ stocks' = stocks \cup {new_stock}
                         /\ writes' = writes + 1
                         /\ last' = <<"portfolio_post", user_id,
                                    <<"added", form_stock_name>>>>
                    ELSE /\ last' = <<"portfolio_post", user_id, <<"error">>>>
                         /\ UNCHANGED <<stocks, writes>>
    /\ UNCHANGED <<users, solverVars, aggVars>>

\* order_by(Stock.stock_name): the rows as a sequence, by name, then by id.
Before(s, t) == \/ (s.stock_name = "X" /\ t.stock_name = "Y")
                \/ (s.stock_name = t.stock_name /\ s.id <= t.id)

RECURSIVE order_by_stock_name(_)
order_by_stock_name(rows) ==
    IF rows = {} THEN <<>>
    ELSE LET r == CHOOSE r \in rows : \A t \in rows : Before(r, t)
         IN  <<r>> \o order_by_stock_name(rows \ {r})

\* GET /portfolio.
portfolio_get(user_id) ==
    LET all_stocks == order_by_stock_name({s \in stocks : s.user_id = user_id})
    IN  /\ last' = <<"portfolio_get", user_id,
                     process_portfolio_data(all_stocks)>>
        /\ UNCHANGED <<users, stocks, writes, solverVars, aggVars>>

\* POST /calculate_break_even.
calculate_break_even(user_id, stock_id, p_target_field) ==
    LET p_target == parse_float(p_target_field)
        stock == first({s \in stocks : s.id = stock_id /\ s.user_id = user_id})
    IN  /\ IF p_target = None \/ stock = None
           THEN last' = <<"calculate_break_even", user_id, <<"redirect">>>>
           ELSE last' = <<"calculate_break_even", user_id,
                          <<"result", stock[1], p_target[1],
                            calculate_shares_to_buy(I(stock[1].quantity),
                                stock[1].buy_price, stock[1].current_price,
                                p_target[1])>>>>
        /\ UNCHANGED <<users, stocks, writes, solverVars, aggVars>>

\* GET /delete/<id>.
delete_stock(user_id, id) ==
    LET stock_to_delete == first({s \in stocks : s.id = id /\ s.user_id = user_id})
    IN  /\ IF stock_to_delete = None
           THEN /\ last' = <<"delete_stock", user_id, "404">>
                /\ UNCHANGED stocks
           ELSE /\ stocks' = stocks \ {stock_to_delete[1]}
                /\ last' = <<"delete_stock", user_id, "redirect">>
        /\ UNCHANGED <<users, writes, solverVars, aggVars>>

\* POST /delete_account.
delete_account(user_id) ==
    /\ stocks' = {s \in stocks : s.user_id # user_id}
    /\ users' = {u \in users : u.id # user_id}
    /\ last' = <<"delete_account", user_id, "redirect">>
    /\ UNCHANGED <<writes, solverVars, aggVars>>

Init == AppIdle /\ SolverIdle /\ AggIdle

Next ==
    \/ \E username \in Usernames : register(username)
    \/ \E u \in users, stock_name \in FormNames, quantity \in QuantityFields,
          buy_price \in BuyPriceFields, current_price \in CurrentPriceFields :
          portfolio_post(u.id, stock_name, quantity, buy_price, current_price)
    \/ \E u \in users : portfolio_get(u.id)
    \/ \E u \in users, stock_id \in StockIds, p_target \in TargetFields :
          calculate_break_even(u.id, stock_id, p_target)
    \/ \E u \in users, id \in StockIds : delete_stock(u.id, id)
    \/ \E u \in users : delete_account(u.id)

Spec == Init /\ [][Next]_vars

\* The routes that write to the tables, without the ones that only read.
\* Which records a submission touches depends on the prices only through
\* the failures they cause, so one price that parses is submitted here, next
\* to one buy_price that does not parse and a current_price that is NaN.
StoreBuyPriceFields == {IntText(1), JunkText}
StoreCurrentPriceFields == {IntText(1), NanText}

StoreNext ==
    \/ \E username \in Usernames : register(username)
    \/ \E u \in users, stock_name \in FormNames, quantity \in QuantityFields,
          buy_price \in StoreBuyPriceFields,
          current_price \in StoreCurrentPriceFields :
          portfolio_post(u.id, stock_name, quantity, buy_price, current_price)
    \/ \E u \in users, id \in StockIds : delete_stock(u.id, id)
    \/ \E u \in users : delete_account(u.id)

SpecStore == Init /\ [][StoreNext]_vars

\* ------------------------------------------------------------------------
\* Aggregator called on arbitrary sequences of positions
\* ------------------------------------------------------------------------
AggPrices == {Norm(k, 8) : k \in 1 .. MaxPrice + 1}
Positions == [id : {1}, stock_name : {"X"}, quantity : Quantities,
              buy_price : AggPrices, current_price : AggPrices]

AggInit ==
    /\ aIn \in UNION {[1 .. n -> Positions] : n \in 0 .. MaxLen}
    /\ aOut = None
    /\ AppIdle /\ SolverIdle

AggCall ==
    /\ aOut = None
    /\ aOut' = <<process_portfolio_data(aIn)>>
    /\ UNCHANGED <<aIn, appVars, solverVars>>

AggNext == AggCall

SpecAggregator == AggInit /\ [][AggNext]_vars

\* ------------------------------------------------------------------------
\* Solver called on arbitrary arguments
\* ------------------------------------------------------------------------
SolverInit ==
    /\ sIn \in [q1 : Quantities, p1 : Floats, p2 : Floats, p_target : Floats]
    /\ sOut = <<"idle">>
    /\ sNew = None
    /\ AppIdle /\ AggIdle

SolverCall ==
    /\ sOut = <<"idle">>
    /\ LET r == calculate_shares_to_buy(I(sIn.q1), sIn.p1, sIn.p2, sIn.p_target)
       IN  sOut' = <<"ret", r.ret, r.denominator>>
    /\ UNCHANGED <<sIn, sNew, appVars, aggVars>>

\* The caller buys the q2 shares the solver returned, at the market price p2.
SolverPurchase ==
    /\ sOut[1] = "ret"
    /\ sOut[2] # None
    /\ sNew = None
    /\ sNew' = update_existing_stock(I(sIn.q1), sIn.p1, sOut[2][1], sIn.p2)
    /\ UNCHANGED <<sIn, sOut, appVars, aggVars>>

SolverNext == SolverCall \/ SolverPurchase

SpecSolver == SolverInit /\ [][SolverNext]_vars

\* ------------------------------------------------------------------------
\* Properties of the solver
\* ------------------------------------------------------------------------
Positive(x) == Gt(x, Zero)
SolverArgsPositive == sIn.q1 > 0 /\ Positive(sIn.p1) /\ Positive(sIn.p2)
Rejected == Le(sIn.p_target, sIn.p2) \/ Ge(sIn.p_target, sIn.p1)
Between == Lt(sIn.p2, sIn.p_target) /\ Lt(sIn.p_target, sIn.p1)
Returned == sOut[1] = "ret"

\* C1: for q1 > 0, p1 > 0, p2 > 0 and p_target <= p2 or p_target >= p1 the
\* call returns None: it returns no number and does not reach the division.
C1_NoSolution ==
    (Returned /\ SolverArgsPositive /\ Rejected)
        => (sOut[2] = None /\ sOut[3] = None)

C1_Witness ==
    /\ Returned /\ SolverArgsPositive
    /\ sIn.p_target = sIn.p1 /\ Lt(sIn.p2, sIn.p_target)
    /\ sOut[2] = None

\* C2: for q1 > 0, p1 > 0, p2 > 0 and p2 < p_target < p1 the call returns a
\* number q2 with q2 * (p_target - p2) = q1 * (p1 - p_target).
C2_Formula ==
    (Returned /\ SolverArgsPositive /\ Between)
        => /\ sOut[2] # None
           /\ ~IsNaN(sOut[2][1])
           /\ Mul(sOut[2][1], Sub(sIn.p_target, sIn.p2))
                = Mul(I(sIn.q1), Sub(sIn.p1, sIn.p_target))

C2_Witness ==
    /\ Returned /\ SolverArgsPositive /\ Between
    /\ sOut[2] # None
    /\ sOut[2][1][2] # 1                   \* a fractional number of shares

C3_SolverDenominatorPositive ==
    (Returned /\ sOut[3] # None) => Positive(sOut[3][1])

\* ------------------------------------------------------------------------
\* Properties of the routes
\* ------------------------------------------------------------------------
BreakEvenResult == last[1] = "calculate_break_even" /\ last[3][1] = "result"

\* C3: whenever control reaches the division in calculate_shares_to_buy,
\* called by the calculate_break_even route with a stored stock and the
\* submitted target, p_target - p2 is strictly positive.
C3_DenominatorPositive ==
    (BreakEvenResult /\ last[3][4].denominator # None)
        => Positive(last[3][4].denominator[1])

\* C5: a submission that parses to (qn, pn, c) for a stock name the user
\* holds with (q, p) leaves that record with quantity q + qn, buy_price
\* (q*p + qn*pn) / (q + qn) and current_price c, and adds no record.
C5_UpdateRule ==
    [][\A u \in users, stock_name \in FormNames, quantity \in QuantityFields,
          buy_price \in BuyPriceFields, current_price \in CurrentPriceFields :
          LET qn == parse_int(quantity)
              pn == parse_float(buy_price)
              c == parse_float(current_price)
              held == existing_stock_of(u.id, upper(stock_name))
          IN  ( /\ portfolio_post(u.id, stock_name, quantity, buy_price,
                                  current_price)
                /\ qn # None /\ pn # None /\ c # None
                /\ ~IsNaN(pn[1]) /\ ~IsNaN(c[1])
                /\ held # None )
              => /\ {s.id : s \in stocks'} = {s.id : s \in stocks}
                 /\ \E s \in stocks' :
                      /\ s.id = held[1].id
                      /\ s.quantity = held[1].quantity + qn[1]
                      /\ Mul(s.buy_price, I(held[1].quantity + qn[1]))
                           = Add(Mul(I(held[1].quantity), held[1].buy_price),
                                 Mul(I(qn[1]), pn[1]))
                      /\ s.current_price = c[1]
      ]_vars

\* C8: every stored Stock record has quantity > 0, and so has every stock
\* the calculate_break_even route hands to the solver.
C8_QuantityPositive ==
    /\ \A s \in stocks : s.quantity > 0
    /\ BreakEvenResult => last[3][2].quantity > 0

\* C10: the table holds at most one record per (user_id, upper-cased
\* stock_name); a submission adds a record only for a name its user does not
\* hold yet, and changes no record of another user.
C10_Unique ==
    \A s, t \in stocks :
        (s.user_id = t.user_id /\ upper(s.stock_name) = upper(t.stock_name))
            => s = t

C10_Submission ==
    last'[1] = "portfolio_post"
        => /\ \A t \in stocks : t.user_id # last'[2] => t \in stocks'
           /\ \A t \in stocks' : t.user_id # last'[2] => t \in stocks
           /\ \A t \in stocks' :
                t.id \notin {s.id : s \in stocks}
                    => ~\E s \in stocks : /\ s.user_id = t.user_id
                                          /\ s.stock_name = upper(t.stock_name)

C10_OneRecordPerName == []C10_Unique /\ [][C10_Submission]_vars

C10_Witness ==
    /\ last[1] = "portfolio_post" /\ last[3][1] = "updated"
    /\ Cardinality(users) = 2
    /\ Cardinality({s \in stocks : /\ s.user_id = last[2]
                                   /\ s.stock_name = last[3][2]}) = 1

\* ------------------------------------------------------------------------
\* Properties of the aggregator
\* ------------------------------------------------------------------------
RECURSIVE SumInvestment(_)
SumInvestment(ps) ==
    IF ps = <<>> THEN Zero
    ELSE Add(Mul(I(Head(ps).quantity), Head(ps).buy_price),
             SumInvestment(Tail(ps)))

RECURSIVE SumCurrentValue(_)
SumCurrentValue(ps) ==
    IF ps = <<>> THEN Zero
    ELSE Add(Mul(I(Head(ps).quantity), Head(ps).current_price),
             SumCurrentValue(Tail(ps)))

AbsR(x) == <<Abs(x[1]), x[2]>>
Cent == Norm(1, 100)

\* C6: for a non-empty sequence the reported totals are the rounded sums and
\* total_profit_loss is within 0.01 of total_current_value - total_investment.
C6_TotalsConsistent ==
    (aOut # None /\ aIn # <<>>)
        => LET t == aOut[1].summary
           IN  /\ t.total_investment = Round2(SumInvestment(aIn))
               /\ t.total_current_value = Round2(SumCurrentValue(aIn))
               /\ Le(AbsR(Sub(t.total_profit_loss,
                              Sub(t.total_current_value, t.total_investment))),
                     Cent)

C6_Witness ==
    /\ aOut # None /\ aIn # <<>>
    /\ AbsR(Sub(aOut[1].summary.total_profit_loss,
                Sub(aOut[1].summary.total_current_value,
                    aOut[1].summary.total_investment))) = Cent

\* C7: one summary per position, in input order, each with the position's
\* quantity and profit_loss = round((current_price - buy_price) * quantity, 2).
C7_PerPosition ==
    aOut # None
        => /\ Len(aOut[1].portfolio) = Len(aIn)
           /\ \A i \in 1 .. Len(aIn) :
                /\ aOut[1].portfolio[i].quantity = aIn[i].quantity
                /\ aOut[1].portfolio[i].profit_loss
                     = Round2(Mul(Sub(aIn[i].current_price, aIn[i].buy_price),
                                  I(aIn[i].quantity)))

C7_Witness ==
    /\ aOut # None /\ Len(aIn) = 2
    /\ aIn[1].quantity # aIn[2].quantity
    /\ aOut[1].portfolio[1].profit_loss # aOut[1].portfolio[2].profit_loss
    /\ aOut[1].portfolio[2].profit_loss
         # Mul(Sub(aIn[2].current_price, aIn[2].buy_price), I(aIn[2].quantity))

\* C9: the empty sequence gives an empty summary sequence and totals of 0.
C9_Empty ==
    (aOut # None /\ aIn = <<>>)
        => /\ aOut[1].portfolio = <<>>
           /\ aOut[1].summary.total_investment = Zero
           /\ aOut[1].summary.total_current_value = Zero
           /\ aOut[1].summary.total_profit_loss = Zero

C9_Witness == aOut # None /\ aIn = <<>>
====
